---- MODULE Spec2Model ----
(***************************************************************************)
(* MediaHeist, scripts/rag/run_siglip_search.py: the SigLIP text -> image  *)
(* retrieval script (query segmentation, embedding, L2 normalisation,     *)
(* hnswlib index build and k-NN query, result formatting).                 *)
(*                                                                         *)
(* Specifications of the script:                                           *)
(*   SpecSeg  zh_seg applied to every bounded text and max_len;            *)
(*   Spec     one run of the script, statement group by statement group;   *)
(*   SpecKnn  lines 90-106 for every small corpus and number of results.   *)
(*                                                                         *)
(* MediaHeist, scripts/select_image/select_image.py: the FastAPI image     *)
(* selection server.  Specifications:                                      *)
(*   SpecSelect      the handler of POST /select on every bounded filename *)
(*                   and content of the base directory;                    *)
(*   SpecServer      create_app, uvicorn.run, the refresh task, GET / and  *)
(*                   a changing base directory (SpecServerFair: with the   *)
(*                   fairness of the event loop);                          *)
(*   SpecTranscript  parse_transcript on every bounded transcript.         *)
(*                                                                         *)
(* Text is a sequence of one-character strings.  Characters outside ASCII  *)
(* are written by name: FWSTOP is the ideographic full stop, FWBANG, FWQ   *)
(* and FWSEMI the full-width '!', '?' and ';', SP a whitespace character.  *)
(***************************************************************************)
EXTENDS Integers, Sequences, FiniteSets

\* SpecSeg: the call of zh_seg under test
VARIABLES seg_pc, seg_text, seg_max_len, seg_chunks

\* Spec: the script's module-level names
VARIABLES
  pc,           \* the statement group the run is at
  TEXT,         \* line 28, the query text
  text_chunks,  \* line 65
  text_emb,     \* lines 68 and 70: a sequence of vectors, one per chunk
  query_vec,    \* line 71
  files,        \* the directory IMAGE_DIR: per path, whether the file opens
                \* as an image and the embedding the model gives it
  img_paths,    \* line 74
  next_img,     \* position of the for loop of line 76 in img_paths
  img_feats,    \* lines 75, 85, 90-91
  index,        \* lines 95-98, the hnswlib index
  labels,       \* line 100
  distances,    \* line 100
  result,       \* lines 104-106
  json_written, \* lines 114-115
  error         \* the exception that ended the run, if any

\* history: the batches handed to processor / get_text_features (lines
\* 67-68) and, for each row of img_feats, the path it was computed from;
\* what get_text_features returned (line 68, before line 70 overwrites
\* text_emb); the paths line 80 printed as skipped
VARIABLES text_calls, feat_src, text_raw, skip_log

\* SpecKnn: the number of results asked for and the embeddings handed to
\* lines 90-106
VARIABLES knn_k, knn_raw

knnvars == <<knn_k, knn_raw>>

\* the files that exist under settings.base_dir (paths relative to it)
VARIABLE fs

\* SpecSelect: the request body, the response and the log of select
VARIABLES sel_pc, payload, response, sel_log

selvars == <<sel_pc, payload, response, sel_log>>

\* SpecServer
VARIABLES
  srv_pc,        \* where main is: before create_app, before uvicorn.run,
                 \* serving
  task_pc,       \* where _refresh_task is: at the scan or in the sleep
  task_loop,     \* the event loop the task was created on (line 315)
  serving_loop,  \* the event loop uvicorn.run serves on (line 994)
  image_cache,   \* line 285
  served,        \* the images of the last page rendered by GET /
  gets,          \* parity of the number of pages rendered
  refresh_log,   \* number of "Refresh task error" records (line 310)
  changes        \* number of changes made to the base directory so far

\* SpecTranscript: the text of the transcript file, the list returned by
\* parse_transcript and, for each segment, content_start and content_end
VARIABLES tr_pc, content, segments, tr_ranges

trvars == <<tr_pc, content, segments, tr_ranges>>

srvvars == <<srv_pc, task_pc, task_loop, serving_loop, image_cache, served,
             gets, refresh_log, changes>>

segvars == <<seg_pc, seg_text, seg_max_len, seg_chunks>>

runvars == <<pc, TEXT, text_chunks, text_emb, query_vec, files, img_paths,
             next_img, img_feats, index, labels, distances, result,
             json_written, error, text_calls, feat_src, text_raw,
             skip_log>>

\* SpecCaption: the arguments of caption_images (the list of paths and, for
\* each path, whether Image.open succeeds on it), the start i of the next
\* batch, the list results and the paths logged as failing to open
VARIABLES cap_pc, paths, cap_opens, cap_i, results, cap_log

capvars == <<cap_pc, paths, cap_opens, cap_i, results, cap_log>>

\* SpecGroup and SpecGallery: the transcript file given to create_app (its
\* text, or NoTranscript), the list of images, segments_cache (in SpecGroup
\* the argument segments), the groups computed and the exception raised
VARIABLES gal_pc, transcript, gal_images, segments_cache, grouped_images,
          gal_error

galvars == <<gal_pc, transcript, gal_images, segments_cache, grouped_images,
             gal_error>>

\* SpecExport (with segments_cache above): settings.output_dir, the
\* selections of the payload of POST /export, the list markdown_lines of
\* generate_markdown, the text of the file written and the response
VARIABLES exp_pc, output_dir, selections, markdown_lines, exported_file,
          exp_response

expvars == <<exp_pc, output_dir, selections, markdown_lines, exported_file,
             exp_response>>

webvars == <<fs, selvars, srvvars, trvars>>

vars == <<segvars, runvars, knnvars, capvars, galvars, expvars, webvars>>

(***************************************************************************)
(* Bounds of the model.                                                    *)
(***************************************************************************)
MaxTextLen == 5
MaxChunkLen == 3
MaxImages == 11
MaxUnreadable == 1
MaxZeroPos == 2
MaxK == 3
MaxParts == 3
MaxDirChanges == 2
MaxScanErrors == 1
MaxContentLen == 6
MaxPaths == 9
MaxLines == 3

Alphabet == {"a", "b", "SP", "!", "FWSTOP", "."}

Texts == UNION {[1..n -> Alphabet] : n \in 0..MaxTextLen}

(***************************************************************************)
(* zh_seg (lines 38-53)                                                    *)
(***************************************************************************)
\* the character class of the pattern of line 40
TerminatorsFullWidthOnly == {"FWSTOP", "FWBANG", "FWQ", "FWSEMI"}
Terminators == {"FWSTOP", "FWBANG", "FWQ", "!", "?", "FWSEMI", ";"}

\* what \s of the pattern and str.strip() take for whitespace
WhiteSpace == {"SP"}

\* the \s* of the pattern: the first position at or after i that holds no
\* whitespace
RECURSIVE SkipWs(_, _)
SkipWs(text, i) ==
  IF i <= Len(text) /\ text[i] \in WhiteSpace THEN SkipWs(text, i + 1) ELSE i

\* re.split from position i on: cur is the piece being read, acc the pieces
\* already cut.  A terminator and the whitespace after it are one separator.
RECURSIVE SplitFrom(_, _, _, _)
SplitFrom(text, i, cur, acc) ==
  IF i > Len(text) THEN Append(acc, cur)
  ELSE IF text[i] \in Terminators
       THEN SplitFrom(text, SkipWs(text, i + 1), <<>>, Append(acc, cur))
       ELSE SplitFrom(text, i + 1, Append(cur, text[i]), acc)

ReSplit(text) == SplitFrom(text, 1, <<>>, <<>>)

\* not s.strip()
IsBlank(s) == \A i \in 1..Len(s) : s[i] \in WhiteSpace

\* s + FWSTOP
Terminated(s) == Append(s, "FWSTOP")

\* len(buf) + len(s) <= max_len
Fits(buf, s, max_len) == Len(buf) + Len(s) <= max_len

\* buf = s + FWSTOP, the buffer a sentence that does not fit starts
StartBufTruncated(s, max_len) ==
  Terminated(SubSeq(s, 1, IF Len(s) <= max_len THEN Len(s) ELSE max_len))
StartBufDropping(s, max_len) == <<>>
StartBuf(s, max_len) == Terminated(s)

\* if buf: chunks.append(buf)
FlushDropping(chunks, buf) == chunks
Flush(chunks, buf) == IF buf # <<>> THEN Append(chunks, buf) ELSE chunks

\* the for loop of lines 42-50 from sentence i on, then lines 51-53
RECURSIVE ZhSegLoop(_, _, _, _, _)
ZhSegLoop(sents, i, chunks, buf, max_len) ==
  IF i > Len(sents) THEN Flush(chunks, buf)
  ELSE LET s == sents[i] IN
       IF IsBlank(s) THEN ZhSegLoop(sents, i + 1, chunks, buf, max_len)
       ELSE IF Fits(buf, s, max_len)
            THEN ZhSegLoop(sents, i + 1, chunks, buf \o Terminated(s), max_len)
            ELSE ZhSegLoop(sents, i + 1, Flush(chunks, buf),
                           StartBuf(s, max_len), max_len)

zh_seg(text, max_len) == ZhSegLoop(ReSplit(text), 1, <<>>, <<>>, max_len)

(***************************************************************************)
(* Vectors.  An embedding has two components.  What the model returns is   *)
(* in units of 1; a norm and a normalised vector are in units of 1/Scale   *)
(* (fixed point, quotients rounded to the nearest unit).  Embeddings of a  *)
(* whole norm that divides Scale have an exact quotient, and a mean of one *)
(* or two such normalised rows is exact too.  nan marks a vector of NaN    *)
(* components.                                                             *)
(***************************************************************************)
Scale == 10 * 10 * 10

Vec(x, y) == [nan |-> FALSE, c |-> <<x, y>>]
NaNVec == [nan |-> TRUE, c |-> <<0, 0>>]

\* the embeddings get_text_features may give a chunk
TextVecs == {Vec(0, 0), Vec(1, 0), Vec(3, 4)}

\* the embedding get_image_features gives the readable image at path p,
\* unless it is the image of zero embedding
ImgDirs == <<Vec(1, 0), Vec(0, 1), Vec(3, 4), Vec(-1, 0)>>
ImgVecOf(p) == ImgDirs[((p - 1) % Len(ImgDirs)) + 1]

\* --------- parameters (lines 31-35)
CHUNK_SENT_LEN == 60
TOP_K == 10

\* the whole part of the square root of s, by bisection of lo..hi
RECURSIVE ISqrtIn(_, _, _)
ISqrtIn(s, lo, hi) ==
  IF lo = hi THEN lo
  ELSE LET mid == (lo + hi + 1) \div 2
       IN  IF mid * mid <= s THEN ISqrtIn(s, mid, hi)
           ELSE ISqrtIn(s, lo, mid - 1)

\* (the root of a 32-bit number is below 46341)
ISqrt(s) == ISqrtIn(s, 0, IF s < 46340 THEN s ELSE 46340)

\* a / b to the nearest whole number (b > 0)
RoundDiv(a, b) == (2 * a + b) \div (2 * b)

\* np.linalg.norm(x, axis=-1) of one row, in units of 1/Scale
Norm(v) == ISqrt((v.c[1] * v.c[1] + v.c[2] * v.c[2]) * Scale * Scale)

\* l2_normalize (lines 55-56) of one row: x / norm, with no test of the
\* norm; numpy gives 0/0 = nan (and a RuntimeWarning, no exception)
l2_normalize_row(v) ==
  IF v.nan \/ Norm(v) = 0 THEN NaNVec
  ELSE Vec(RoundDiv(v.c[1] * Scale * Scale, Norm(v)),
           RoundDiv(v.c[2] * Scale * Scale, Norm(v)))

\* l2_normalize of an array: row-wise
l2_normalize(rows) == [i \in 1..Len(rows) |-> l2_normalize_row(rows[i])]

RECURSIVE SumComp(_, _)
SumComp(rows, j) ==
  IF rows = <<>> THEN 0 ELSE Head(rows).c[j] + SumComp(Tail(rows), j)

\* a mean that is brought back to unit length (the components are cut to
\* tenths first, to keep the squares within 32 bits)
MeanRowRenormalized(rows) ==
  IF rows = <<>> \/ \E i \in 1..Len(rows) : rows[i].nan THEN NaNVec
  ELSE l2_normalize_row(
         Vec((SumComp(rows, 1) \div Len(rows)) \div (Scale \div 10),
             (SumComp(rows, 2) \div Len(rows)) \div (Scale \div 10)))

\* text_emb.mean(axis=0, keepdims=True) (line 71); the mean of no row is
\* nan (0/0), as is a mean over a nan row
MeanRow(rows) ==
  IF rows = <<>> \/ \E i \in 1..Len(rows) : rows[i].nan THEN NaNVec
  ELSE Vec(SumComp(rows, 1) \div Len(rows), SumComp(rows, 2) \div Len(rows))

(***************************************************************************)
(* The hnswlib index as the script uses it (lines 95-100): space 'ip',     *)
(* items[i] is the vector inserted under label i - 1.                      *)
(***************************************************************************)
NoIndex == [created |-> FALSE, max_elements |-> 0, items |-> <<>>]

\* init_index(max_elements = len(img_feats)) and
\* add_items(img_feats, np.arange(len(img_feats))) (lines 95-97)
BuildIndexOf(feats) ==
  [created |-> TRUE, max_elements |-> Len(feats), items |-> feats]

NaNDist == [nan |-> TRUE, d |-> 0]

\* the distance of space 'ip': 1 - <q, x>, in units of 1/Scale^2
IpDistance(q, x) ==
  IF q.nan \/ x.nan THEN NaNDist
  ELSE [nan |-> FALSE,
        d |-> Scale * Scale - (q.c[1] * x.c[1] + q.c[2] * x.c[2])]

\* a is before b in the order the results come back in: ascending distance,
\* then ascending label.  A nan distance compares false with every number:
\* the library leaves the place of such an item open, the model puts it
\* last.
Before(da, la, db, lb) ==
  IF da.nan # db.nan THEN db.nan
  ELSE IF da.nan THEN la < lb
  ELSE da.d < db.d \/ (da.d = db.d /\ la < lb)

SameDistance(da, db) == (da.nan /\ db.nan) \/ (~da.nan /\ ~db.nan /\ da.d = db.d)

\* the labels of L (0-based) in result order for query q
RECURSIVE OrderLabels(_, _, _)
OrderLabels(idx, q, L) ==
  IF L = {} THEN <<>>
  ELSE LET dist(l) == IpDistance(q, idx.items[l + 1])
           first == CHOOSE l \in L :
                      \A m \in L \ {l} : Before(dist(l), l, dist(m), m)
       IN  <<first>> \o OrderLabels(idx, q, L \ {first})

\* knn_query raises when the index holds fewer than k items (it cannot fill
\* a row of k results)
KnnRaises(idx, k) == Len(idx.items) < k

\* the label sequences knn_query(q, k) may return: k nearest items, nearest
\* first; which of several items at the same distance as the k-th make it
\* into the result is the graph search's choice
KnnLabels(idx, q, k) ==
  LET all == 0..(Len(idx.items) - 1)
      ordered == OrderLabels(idx, q, all)
      kth == IpDistance(q, idx.items[ordered[k] + 1])
      nearer == {l \in all :
                   LET dl == IpDistance(q, idx.items[l + 1])
                   IN  ~SameDistance(dl, kth) /\ Before(dl, l, kth, ordered[k])}
      tied == {l \in all : SameDistance(IpDistance(q, idx.items[l + 1]), kth)}
  IN  {OrderLabels(idx, q, nearer \cup T) :
         T \in {X \in SUBSET tied : Cardinality(X) = k - Cardinality(nearer)}}

\* the distances that come with the labels
KnnDistances(idx, q, ls) ==
  [r \in 1..Len(ls) |-> IpDistance(q, idx.items[ls[r] + 1])]

(***************************************************************************)
(* Spec: one run of the script.                                            *)
(***************************************************************************)
\* a sentence of n characters c
Rep(c, n) == [i \in 1..n |-> c]

\* the query texts of the model: no chunk (empty text, marks only), one
\* chunk, two chunks (a sentence longer than CHUNK_SENT_LEN, then another)
QueryTexts ==
  { <<>>, <<"!", "SP">>, <<"a", "!", "b">>,
    Rep("a", CHUNK_SENT_LEN + 1) \o <<"!", "b">> }

\* the directories of the model: n files, any MaxUnreadable of them not
\* opening as an image, at most one readable image (z, 0 for none) of zero
\* embedding, at one of the first MaxZeroPos paths
UnreadableFile == [ok |-> FALSE, vec |-> Vec(0, 0)]

Directory(n, U, z) ==
  [p \in 1..n |->
     IF p \in U THEN UnreadableFile
     ELSE [ok |-> TRUE, vec |-> IF p = z THEN Vec(0, 0) ELSE ImgVecOf(p)]]

Directories ==
  {Directory(n, U, z) :
     n \in 0..MaxImages,
     U \in {X \in SUBSET (1..MaxImages) : Cardinality(X) <= MaxUnreadable},
     z \in 0..MaxZeroPos}

RunIdle ==
  /\ TEXT = <<>>
  /\ text_chunks = <<>>
  /\ text_emb = <<>>
  /\ query_vec = NaNVec
  /\ files = <<>>
  /\ img_paths = <<>>
  /\ next_img = 1
  /\ img_feats = <<>>
  /\ index = NoIndex
  /\ labels = <<>>
  /\ distances = <<>>
  /\ result = <<>>
  /\ json_written = FALSE
  /\ error = "none"
  /\ text_calls = <<>>
  /\ feat_src = <<>>
  /\ text_raw = <<>>
  /\ skip_log = <<>>

KnnIdle ==
  /\ knn_k = 0
  /\ knn_raw = <<>>

NoResponse == [status |-> 0, file |-> <<>>]

SelIdle ==
  /\ sel_pc = "idle"
  /\ payload = [abs |-> FALSE, comps |-> <<>>]
  /\ response = NoResponse
  /\ sel_log = <<>>

SrvIdle ==
  /\ srv_pc = "idle"
  /\ task_pc = "none"
  /\ task_loop = "none"
  /\ serving_loop = "none"
  /\ image_cache = <<>>
  /\ served = <<>>
  /\ gets = 0
  /\ refresh_log = 0
  /\ changes = 0

TrIdle ==
  /\ tr_pc = "idle"
  /\ content = <<>>
  /\ segments = <<>>
  /\ tr_ranges = <<>>

WebIdle ==
  /\ fs = {}
  /\ SelIdle
  /\ SrvIdle
  /\ TrIdle

CapIdle ==
  /\ cap_pc = "idle"
  /\ paths = <<>>
  /\ cap_opens = <<>>
  /\ cap_i = 0
  /\ results = <<>>
  /\ cap_log = <<>>

NoTranscript == <<"no transcript">>

GalIdle ==
  /\ gal_pc = "idle"
  /\ transcript = NoTranscript
  /\ gal_images = <<>>
  /\ segments_cache = <<>>
  /\ grouped_images = <<>>
  /\ gal_error = "none"

NoFile == <<"no file">>

NoExport == [status |-> 0, total_segments |-> 0, total_selections |-> 0]

ExpIdle ==
  /\ exp_pc = "idle"
  /\ output_dir = "none"
  /\ selections = <<>>
  /\ markdown_lines = <<>>
  /\ exported_file = NoFile
  /\ exp_response = NoExport

SegIdle ==
  /\ seg_pc = "idle"
  /\ seg_text = <<>>
  /\ seg_max_len = 1
  /\ seg_chunks = <<>>

Init ==
  /\ SegIdle
  /\ ExpIdle
  /\ GalIdle
  /\ CapIdle
  /\ KnnIdle
  /\ WebIdle
  /\ pc = "segment"
  /\ TEXT \in QueryTexts
  /\ text_chunks = <<>>
  /\ text_emb = <<>>
  /\ query_vec = NaNVec
  /\ files \in Directories
  /\ img_paths = <<>>
  /\ next_img = 1
  /\ img_feats = <<>>
  /\ index = NoIndex
  /\ labels = <<>>
  /\ distances = <<>>
  /\ result = <<>>
  /\ json_written = FALSE
  /\ error = "none"
  /\ text_calls = <<>>
  /\ feat_src = <<>>
  /\ text_raw = <<>>
  /\ skip_log = <<>>

Raise(e) ==
  /\ pc' = "failed"
  /\ error' = e

\* line 65
Segment ==
  /\ pc = "segment"
  /\ text_chunks' = zh_seg(TEXT, CHUNK_SENT_LEN)
  /\ pc' = "embed_text"
  /\ UNCHANGED <<segvars, knnvars, capvars, galvars, expvars, webvars, text_raw, skip_log, TEXT, text_emb, query_vec, files, img_paths,
                 next_img, img_feats, index, labels, distances, result,
                 json_written, error, text_calls, feat_src>>

\* lines 66-68: processor and get_text_features on text_chunks, whatever
\* their number; one embedding per chunk
EmbedText ==
  /\ pc = "embed_text"
  /\ text_calls' = Append(text_calls, text_chunks)
  /\ text_emb' \in [1..Len(text_chunks) -> TextVecs]
  /\ text_raw' = text_emb'
  /\ pc' = "aggregate"
  /\ UNCHANGED <<segvars, knnvars, capvars, galvars, expvars, webvars, skip_log, TEXT, text_chunks, query_vec, files, img_paths,
                 next_img, img_feats, index, labels, distances, result,
                 json_written, error, feat_src>>

\* lines 66-68 on an empty batch: the tokenizer or the model may refuse it
EmbedTextRaises ==
  /\ pc = "embed_text"
  /\ text_chunks = <<>>
  /\ text_calls' = Append(text_calls, text_chunks)
  /\ Raise("EmbedTextError")
  /\ UNCHANGED <<segvars, knnvars, capvars, galvars, expvars, webvars, text_raw, skip_log, TEXT, text_chunks, text_emb, query_vec, files,
                 img_paths, next_img, img_feats, index, labels, distances,
                 result, json_written, feat_src>>

\* lines 70-71
Aggregate ==
  /\ pc = "aggregate"
  /\ text_emb' = l2_normalize(text_emb)
  /\ query_vec' = MeanRow(l2_normalize(text_emb))
  /\ pc' = "list_images"
  /\ UNCHANGED <<segvars, knnvars, capvars, galvars, expvars, webvars, text_raw, skip_log, TEXT, text_chunks, files, img_paths, next_img,
                 img_feats, index, labels, distances, result, json_written,
                 error, text_calls, feat_src>>

\* lines 74-75: the paths of the directory, sorted
ListImages ==
  /\ pc = "list_images"
  /\ img_paths' = [i \in 1..Len(files) |-> i]
  /\ img_feats' = <<>>
  /\ feat_src' = <<>>
  /\ next_img' = 1
  /\ pc' = "embed_images"
  /\ UNCHANGED <<segvars, knnvars, capvars, galvars, expvars, webvars, text_raw, skip_log, TEXT, text_chunks, text_emb, query_vec, files,
                 index, labels, distances, result, json_written, error,
                 text_calls>>

\* lines 76-85, one pass of the loop on an image that opens
EmbedImage ==
  /\ pc = "embed_images"
  /\ next_img <= Len(img_paths)
  /\ files[img_paths[next_img]].ok
  /\ img_feats' = Append(img_feats, files[img_paths[next_img]].vec)
  /\ feat_src' = Append(feat_src, img_paths[next_img])
  /\ next_img' = next_img + 1
  /\ UNCHANGED <<segvars, knnvars, capvars, galvars, expvars, webvars, text_raw, skip_log, pc, TEXT, text_chunks, text_emb, query_vec, files,
                 img_paths, index, labels, distances, result, json_written,
                 error, text_calls>>

\* a loop without the try / except of lines 77-81: the exception of
\* Image.open ends the run
SkipImageAborts ==
  /\ pc = "embed_images"
  /\ next_img <= Len(img_paths)
  /\ ~files[img_paths[next_img]].ok
  /\ Raise("ImageOpenError")
  /\ UNCHANGED <<segvars, knnvars, capvars, galvars, expvars, webvars, text_raw, skip_log, TEXT, text_chunks,
                 text_emb, query_vec, files, img_paths, next_img, img_feats,
                 index, labels, distances, result, json_written, text_calls,
                 feat_src>>

\* lines 77-81, one pass of the loop on a file that does not open: print
\* "skip" and the path, continue with the next path
SkipImage ==
  /\ pc = "embed_images"
  /\ next_img <= Len(img_paths)
  /\ ~files[img_paths[next_img]].ok
  /\ skip_log' = Append(skip_log, img_paths[next_img])
  /\ next_img' = next_img + 1
  /\ UNCHANGED <<segvars, knnvars, capvars, galvars, expvars, webvars, text_raw, pc, TEXT, text_chunks, text_emb, query_vec, files,
                 img_paths, img_feats, index, labels, distances, result,
                 json_written, error, text_calls, feat_src>>

\* if not img_feats (line 87)
CorpusIsEmptyNever(feats) == FALSE
CorpusIsEmpty(feats) == feats = <<>>

\* lines 87-88
EmptyCorpusRaises ==
  /\ pc = "embed_images"
  /\ next_img > Len(img_paths)
  /\ CorpusIsEmpty(img_feats)
  /\ Raise("EmptyCorpus")
  /\ UNCHANGED <<segvars, knnvars, capvars, galvars, expvars, webvars, text_raw, skip_log, TEXT, text_chunks, text_emb, query_vec, files,
                 img_paths, next_img, img_feats, index, labels, distances,
                 result, json_written, text_calls, feat_src>>

\* lines 90-98: stack, normalise, create the index and insert every row
BuildIndex ==
  /\ pc = "embed_images"
  /\ next_img > Len(img_paths)
  /\ ~CorpusIsEmpty(img_feats)
  /\ img_feats' = l2_normalize(img_feats)
  /\ index' = BuildIndexOf(l2_normalize(img_feats))
  /\ pc' = "query"
  /\ UNCHANGED <<segvars, knnvars, capvars, galvars, expvars, webvars, text_raw, skip_log, TEXT, text_chunks, text_emb, query_vec, files,
                 img_paths, next_img, labels, distances, result,
                 json_written, error, text_calls, feat_src>>

\* a query that first adds the query vector to the index
QueryInserting ==
  /\ pc = "query"
  /\ ~KnnRaises(index, TOP_K)
  /\ index' = BuildIndexOf(Append(index.items, query_vec))
  /\ labels' \in KnnLabels(index', query_vec, TOP_K)
  /\ distances' = KnnDistances(index', query_vec, labels')
  /\ pc' = "format"
  /\ UNCHANGED <<segvars, knnvars, capvars, galvars, expvars, webvars, text_raw, skip_log, TEXT, text_chunks,
                 text_emb, query_vec, files, img_paths, next_img, img_feats,
                 result, json_written, error, text_calls, feat_src>>

\* line 100
Query ==
  /\ pc = "query"
  /\ ~KnnRaises(index, TOP_K)
  /\ labels' \in KnnLabels(index, query_vec, TOP_K)
  /\ distances' = KnnDistances(index, query_vec, labels')
  /\ pc' = "format"
  /\ UNCHANGED <<segvars, knnvars, capvars, galvars, expvars, webvars, text_raw, skip_log, TEXT, text_chunks, text_emb, query_vec, files,
                 img_paths, next_img, img_feats, index, result, json_written,
                 error, text_calls, feat_src>>

\* line 100 with fewer than TOP_K items in the index
QueryRaises ==
  /\ pc = "query"
  /\ KnnRaises(index, TOP_K)
  /\ Raise("KnnTooFewResults")
  /\ UNCHANGED <<segvars, knnvars, capvars, galvars, expvars, webvars, text_raw, skip_log, TEXT, text_chunks, text_emb, query_vec, files,
                 img_paths, next_img, img_feats, index, labels, distances,
                 result, json_written, text_calls, feat_src>>

\* one record of result (line 106)
ResultRecord(rank, i, sc) ==
  [rank |-> rank, path |-> img_paths[i + 1], score |-> sc]

\* lines 104-106
FormatResult ==
  /\ pc = "format"
  /\ result' = [r \in 1..Len(labels) |->
                  ResultRecord(r, labels[r], distances[r])]
  /\ pc' = "write"
  /\ UNCHANGED <<segvars, knnvars, capvars, galvars, expvars, webvars, text_raw, skip_log, TEXT, text_chunks, text_emb, query_vec, files,
                 img_paths, next_img, img_feats, index, labels, distances,
                 json_written, error, text_calls, feat_src>>

\* lines 108-115
WriteOutput ==
  /\ pc = "write"
  /\ json_written' = TRUE
  /\ pc' = "done"
  /\ UNCHANGED <<segvars, knnvars, capvars, galvars, expvars, webvars, text_raw, skip_log, TEXT, text_chunks, text_emb, query_vec, files,
                 img_paths, next_img, img_feats, index, labels, distances,
                 result, error, text_calls, feat_src>>

Next ==
  \/ Segment
  \/ EmbedText
  \/ EmbedTextRaises
  \/ Aggregate
  \/ ListImages
  \/ EmbedImage
  \/ SkipImage
  \/ EmptyCorpusRaises
  \/ BuildIndex
  \/ Query
  \/ QueryRaises
  \/ FormatResult
  \/ WriteOutput

Spec == Init /\ [][Next]_vars

(***************************************************************************)
(* SpecSeg: zh_seg on every text of at most MaxTextLen characters and      *)
(* every max_len in 1..MaxChunkLen.                                        *)
(***************************************************************************)
InitSeg ==
  /\ seg_pc = "call"
  /\ seg_text \in Texts
  /\ seg_max_len \in 1..MaxChunkLen
  /\ seg_chunks = <<>>
  /\ pc = "idle"
  /\ RunIdle
  /\ ExpIdle
  /\ GalIdle
  /\ CapIdle
  /\ KnnIdle
  /\ WebIdle

ZhSegCall ==
  /\ seg_pc = "call"
  /\ seg_chunks' = zh_seg(seg_text, seg_max_len)
  /\ seg_pc' = "done"
  /\ UNCHANGED <<seg_text, seg_max_len, runvars, knnvars, capvars, galvars, expvars, webvars>>

NextSeg == ZhSegCall

SpecSeg == InitSeg /\ [][NextSeg]_vars

(***************************************************************************)
(* SpecKnn: lines 90-106 (normalise the corpus, build the index, query,    *)
(* format) on every corpus of distinct embeddings out of KnnVecs, with the *)
(* number of results k = TOP_K of line 32 set to every value in 1..MaxK.   *)
(***************************************************************************)
\* the corpus embeddings of SpecKnn, in tenths: [1,0], [0,1], [0.9,0.1],
\* [-1,0], [0,-1] (l2_normalize does not depend on the unit)
KnnVecs == {Vec(10, 0), Vec(0, 10), Vec(9, 1), Vec(-10, 0), Vec(0, -10)}

\* the query vectors of SpecKnn: [1,0] and [0,1]
KnnQueries == {Vec(Scale, 0), Vec(0, Scale)}

\* the corpora of SpecKnn: the sequences of distinct embeddings
KnnCorpora ==
  UNION {{c \in [1..n -> KnnVecs] : \A i, j \in 1..n : c[i] = c[j] => i = j} :
           n \in 1..Cardinality(KnnVecs)}

InitKnn ==
  /\ SegIdle
  /\ ExpIdle
  /\ GalIdle
  /\ CapIdle
  /\ WebIdle
  /\ pc = "knn_call"
  /\ knn_k \in 1..MaxK
  /\ knn_raw \in KnnCorpora
  /\ img_feats = knn_raw
  /\ img_paths = [i \in 1..Len(knn_raw) |-> i]
  /\ feat_src = [i \in 1..Len(knn_raw) |-> i]
  /\ next_img = Len(knn_raw) + 1
  /\ query_vec \in KnnQueries
  /\ TEXT = <<>>
  /\ text_chunks = <<>>
  /\ text_emb = <<>>
  /\ files = <<>>
  /\ index = NoIndex
  /\ labels = <<>>
  /\ distances = <<>>
  /\ result = <<>>
  /\ json_written = FALSE
  /\ error = "none"
  /\ text_calls = <<>>
  /\ text_raw = <<>>
  /\ skip_log = <<>>

\* lines 90-106 with TOP_K = knn_k
KnnCall ==
  /\ pc = "knn_call"
  /\ ~KnnRaises(BuildIndexOf(l2_normalize(img_feats)), knn_k)
  /\ img_feats' = l2_normalize(img_feats)
  /\ index' = BuildIndexOf(l2_normalize(img_feats))
  /\ labels' \in KnnLabels(index', query_vec, knn_k)
  /\ distances' = KnnDistances(index', query_vec, labels')
  /\ result' = [r \in 1..Len(labels') |->
                  ResultRecord(r, labels'[r], distances'[r])]
  /\ pc' = "knn_done"
  /\ UNCHANGED <<segvars, knnvars, capvars, galvars, expvars, webvars, text_raw, skip_log, TEXT, text_chunks,
                 text_emb, query_vec, files, img_paths, next_img,
                 json_written, error, text_calls, feat_src>>

\* lines 90-100 when the corpus has fewer than knn_k items
KnnCallRaises ==
  /\ pc = "knn_call"
  /\ KnnRaises(BuildIndexOf(l2_normalize(img_feats)), knn_k)
  /\ img_feats' = l2_normalize(img_feats)
  /\ index' = BuildIndexOf(l2_normalize(img_feats))
  /\ Raise("KnnTooFewResults")
  /\ UNCHANGED <<segvars, knnvars, capvars, galvars, expvars, webvars, text_raw, skip_log, TEXT, text_chunks,
                 text_emb, query_vec, files, img_paths, next_img, labels,
                 distances, result, json_written, text_calls, feat_src>>

NextKnn ==
  \/ KnnCall
  \/ KnnCallRaises

SpecKnn == InitKnn /\ [][NextKnn]_vars

(***************************************************************************)
(* select_image.py.  The file system: a path is the sequence of its        *)
(* components from the root.  The root holds the directory srv, which is   *)
(* settings.base_dir, and the file secret; srv holds the directory d and   *)
(* the files of fs.  There are no symbolic links.                          *)
(***************************************************************************)
BaseDir == <<"srv">>

\* the files that may exist under base_dir, as sorted() orders them
SortedInside == << <<"a.jpg">>, <<"b.gif">>, <<"d", "c.png">>, <<"n.txt">> >>

InsideFiles == {SortedInside[i] : i \in 1..Len(SortedInside)}

OutsideFiles == { <<"secret">> }

IsDir(p) == p \in {<<>>, BaseDir, BaseDir \o <<"d">>}

IsFile(f, p) == p \in OutsideFiles \/ \E q \in f : p = BaseDir \o q

Parent(p) == IF p = <<>> THEN <<>> ELSE SubSeq(p, 1, Len(p) - 1)

NoNode == [ok |-> FALSE, path |-> <<>>]

\* the node the operating system reaches from the existing node cur along
\* parts: '..' is the parent, a name is a child, and only a directory is
\* walked through
RECURSIVE Resolve(_, _, _)
Resolve(f, cur, parts) ==
  IF parts = <<>> THEN [ok |-> TRUE, path |-> cur]
  ELSE IF ~IsDir(cur) THEN NoNode
  ELSE IF Head(parts) = ".." THEN Resolve(f, Parent(cur), Tail(parts))
  ELSE LET next == Append(cur, Head(parts))
       IN  IF IsDir(next) \/ IsFile(f, next)
           THEN Resolve(f, next, Tail(parts))
           ELSE NoNode

\* pathlib.Path(filename): a leading '/' makes the path absolute, '.'
\* components are dropped, '..' components are kept
PathOf(body) ==
  [abs |-> body.abs,
   parts |-> SelectSeq(body.comps, LAMBDA c : c # ".")]

\* settings.base_dir / rel_path (line 341), for a relative rel_path
FullPath(rel_path) == BaseDir \o rel_path.parts

\* full_path.exists() (line 342)
Exists(f, full_path) == Resolve(f, <<>>, full_path).ok

\* a test of the first component only
HasDotDotFirstOnly(parts) == parts # <<>> /\ parts[1] = ".."

\* ".." in rel_path.parts (line 339)
HasDotDot(parts) == \E i \in 1..Len(parts) : parts[i] = ".."

(***************************************************************************)
(* SpecSelect: POST /select (lines 336-347) for every filename of at most  *)
(* MaxParts components and every content of the base directory.            *)
(***************************************************************************)
Components == {"..", ".", "a.jpg", "d", "c.png", "secret"}

Filenames ==
  [abs : BOOLEAN,
   comps : UNION {[1..n -> Components] : n \in 0..MaxParts}]

InitSelect ==
  /\ SegIdle
  /\ ExpIdle
  /\ GalIdle
  /\ CapIdle
  /\ pc = "idle"
  /\ RunIdle
  /\ KnnIdle
  /\ SrvIdle
  /\ TrIdle
  /\ fs \in SUBSET InsideFiles
  /\ sel_pc = "request"
  /\ payload \in Filenames
  /\ response = NoResponse
  /\ sel_log = <<>>

\* lines 338-347
select ==
  /\ sel_pc = "request"
  /\ LET rel_path == PathOf(payload)
     IN  IF rel_path.abs \/ HasDotDot(rel_path.parts)
         THEN /\ response' = [status |-> 400, file |-> <<>>]
              /\ sel_log' = sel_log
         ELSE IF ~Exists(fs, FullPath(rel_path))
         THEN /\ response' = [status |-> 404, file |-> <<>>]
              /\ sel_log' = sel_log
         ELSE /\ response' = [status |-> 200, file |-> rel_path.parts]
              /\ sel_log' = Append(sel_log, FullPath(rel_path))
  /\ sel_pc' = "done"
  /\ UNCHANGED <<segvars, runvars, knnvars, capvars, galvars, expvars, trvars, srvvars, fs, payload>>

NextSelect == select

SpecSelect == InitSelect /\ [][NextSelect]_vars

(***************************************************************************)
(* SpecServer: main (lines 987-1000), create_app (lines 264-315), the      *)
(* refresh task (lines 300-311) and GET / (lines 319-334), with no         *)
(* transcript, while files appear in and disappear from the base           *)
(* directory.                                                              *)
(*                                                                         *)
(* create_app is an argument of uvicorn.run, so it runs, and creates the   *)
(* task on asyncio.get_event_loop(), before uvicorn.run is entered.  Which *)
(* event loop uvicorn.run then serves on is uvicorn's matter: the loop     *)
(* that was current (loop.run_until_complete on get_event_loop(), early    *)
(* versions with the default loop policy) or a new one (asyncio.run, or a  *)
(* loop policy installed by uvicorn.run).  An event loop runs the tasks    *)
(* created on it, and no others.                                           *)
(***************************************************************************)
\* suffix in allowed_exts (line 83)
IsImage(q) == q[Len(q)] \in {"a.jpg", "b.gif", "c.png"}

\* scan_images(settings.base_dir) (lines 76-85)
ScanImages(f) == SelectSeq(SortedInside, LAMBDA q : q \in f /\ IsImage(q))

InitServer ==
  /\ SegIdle
  /\ ExpIdle
  /\ GalIdle
  /\ CapIdle
  /\ pc = "idle"
  /\ RunIdle
  /\ KnnIdle
  /\ SelIdle
  /\ TrIdle
  /\ fs \in SUBSET InsideFiles
  /\ srv_pc = "main"
  /\ task_pc = "none"
  /\ task_loop = "none"
  /\ serving_loop = "none"
  /\ image_cache = <<>>
  /\ served = <<>>
  /\ gets = 0
  /\ refresh_log = 0
  /\ changes = 0

\* lines 264-315: the first scan, and the task created on the event loop
\* that is current at that time
create_app ==
  /\ srv_pc = "main"
  /\ image_cache' = ScanImages(fs)
  /\ task_loop' = "current"
  /\ task_pc' = "scan"
  /\ srv_pc' = "created"
  /\ UNCHANGED <<segvars, runvars, knnvars, capvars, galvars, expvars, trvars, selvars, fs, serving_loop,
                 served, gets, refresh_log, changes>>

\* lines 994-1000: uvicorn.run starts serving
uvicorn_run ==
  /\ srv_pc = "created"
  /\ serving_loop' \in {"current", "new"}
  /\ srv_pc' = "serving"
  /\ UNCHANGED <<segvars, runvars, knnvars, capvars, galvars, expvars, trvars, selvars, fs, task_pc,
                 task_loop, image_cache, served, gets, refresh_log, changes>>

\* the loop that is running is the one the task was created on
TaskRuns == srv_pc = "serving" /\ serving_loop = task_loop

\* lines 305-308: a scan, the cache replaced if the list differs, then the
\* sleep
RefreshScan ==
  /\ TaskRuns
  /\ task_pc = "scan"
  /\ image_cache' = IF ScanImages(fs) # image_cache THEN ScanImages(fs)
                    ELSE image_cache
  /\ task_pc' = "sleep"
  /\ UNCHANGED <<segvars, runvars, knnvars, capvars, galvars, expvars, trvars, selvars, fs, srv_pc, task_loop,
                 serving_loop, served, gets, refresh_log, changes>>

\* lines 305, 309-311: a scan that raises is logged, then the sleep
RefreshScanRaises ==
  /\ TaskRuns
  /\ task_pc = "scan"
  /\ refresh_log < MaxScanErrors
  /\ refresh_log' = refresh_log + 1
  /\ task_pc' = "sleep"
  /\ UNCHANGED <<segvars, runvars, knnvars, capvars, galvars, expvars, trvars, selvars, fs, srv_pc, task_loop,
                 serving_loop, image_cache, served, gets, changes>>

\* lines 308, 311: asyncio.sleep(settings.refresh_secs) returns
RefreshWake ==
  /\ TaskRuns
  /\ task_pc = "sleep"
  /\ task_pc' = "scan"
  /\ UNCHANGED <<segvars, runvars, knnvars, capvars, galvars, expvars, trvars, selvars, fs, srv_pc, task_loop,
                 serving_loop, image_cache, served, gets, refresh_log,
                 changes>>

\* lines 319-334, GET / without transcript: the page lists image_cache
index_page ==
  /\ srv_pc = "serving"
  /\ served' = image_cache
  /\ gets' = 1 - gets
  /\ UNCHANGED <<segvars, runvars, knnvars, capvars, galvars, expvars, trvars, selvars, fs, srv_pc, task_pc,
                 task_loop, serving_loop, image_cache, refresh_log, changes>>

\* a file appears in or disappears from the base directory
ChangeDir ==
  /\ changes < MaxDirChanges
  /\ \E q \in InsideFiles :
       fs' = IF q \in fs THEN fs \ {q} ELSE fs \cup {q}
  /\ changes' = changes + 1
  /\ UNCHANGED <<segvars, runvars, knnvars, capvars, galvars, expvars, trvars, selvars, srv_pc, task_pc,
                 task_loop, serving_loop, image_cache, served, gets,
                 refresh_log>>

NextServer ==
  \/ create_app
  \/ uvicorn_run
  \/ RefreshScan
  \/ RefreshScanRaises
  \/ RefreshWake
  \/ index_page
  \/ ChangeDir

SpecServer == InitServer /\ [][NextServer]_vars

\* main goes on to serve; the running event loop runs its ready tasks and
\* its timers; a client keeps asking for the page
SpecServerFair ==
  /\ SpecServer
  /\ WF_vars(create_app)
  /\ WF_vars(uvicorn_run)
  /\ WF_vars(RefreshScan)
  /\ WF_vars(RefreshWake)
  /\ WF_vars(index_page)

(***************************************************************************)
(* SpecTranscript: parse_transcript (lines 150-206) on every transcript of *)
(* at most MaxContentLen characters.  The text of a transcript is a        *)
(* sequence of characters, where H1 and H2 each stand for the text of one  *)
(* Timestamp heading, '### Timestamp: **s** ~ **e**', with times of its    *)
(* own, NL is the line feed, SP another whitespace character and x any     *)
(* other character.                                                        *)
(***************************************************************************)
TrAlphabet == {"H1", "H2", "x", "SP", "NL"}

Transcripts == UNION {[1..n -> TrAlphabet] : n \in 0..MaxContentLen}

\* groups 1 and 2 of a match of heading_re
HeadingTimes(h) ==
  IF h = "H1" THEN <<"00:00:00,000", "00:00:05,000">>
  ELSE <<"00:00:05,000", "00:00:10,000">>

\* heading_re (lines 165-168) matches at position i (1-based): '^###' is
\* at the start of a line (re.MULTILINE), and the match ends with its line
HeadingAt(c, i) ==
  /\ c[i] \in {"H1", "H2"}
  /\ i = 1 \/ c[i - 1] = "NL"

\* list(heading_re.finditer(content)) (line 170): match.start() (0-based)
\* and the two groups of each match, in the order of the text
Matches(c) ==
  LET at == SelectSeq([i \in 1..Len(c) |-> i], LAMBDA i : HeadingAt(c, i))
  IN  [k \in 1..Len(at) |->
         [start |-> at[k] - 1, groups |-> HeadingTimes(c[at[k]])]]

\* str.strip()
RECURSIVE LStripWs(_)
LStripWs(t) ==
  IF t # <<>> /\ Head(t) \in {"SP", "NL"} THEN LStripWs(Tail(t)) ELSE t

RECURSIVE RStripWs(_)
RStripWs(t) ==
  IF t # <<>> /\ t[Len(t)] \in {"SP", "NL"}
  THEN RStripWs(SubSeq(t, 1, Len(t) - 1))
  ELSE t

Strip(t) == RStripWs(LStripWs(t))

\* content[a:b]
Slice(c, a, b) == SubSeq(c, a + 1, b)

\* every segment starts at its own heading
ContentStartAtHeading(idx, ms) == ms[idx + 1].start

\* lines 184-189 (idx is 0-based)
ContentStart(idx, ms) == IF idx = 0 THEN 0 ELSE ms[idx + 1].start

\* lines 192-195
ContentEnd(idx, ms, c) ==
  IF idx + 1 < Len(ms) THEN ms[idx + 2].start ELSE Len(c)

\* the ranges of content the segments are cut from (the whole text when
\* there is no match, line 174)
SegmentRanges(c) ==
  LET ms == Matches(c)
  IN  IF ms = <<>> THEN <<[from |-> 0, to |-> Len(c)]>>
      ELSE [k \in 1..Len(ms) |->
              [from |-> ContentStart(k - 1, ms),
               to |-> ContentEnd(k - 1, ms, c)]]

\* parse_transcript, on the text read at line 162
parse_transcript(c) ==
  LET ms == Matches(c)
  IN  IF ms = <<>> THEN <<[start |-> "", end |-> "", text |-> Strip(c)]>>
      ELSE [k \in 1..Len(ms) |->
              [start |-> ms[k].groups[1],
               end |-> ms[k].groups[2],
               text |-> Strip(Slice(c, ContentStart(k - 1, ms),
                                    ContentEnd(k - 1, ms, c)))]]

InitTranscript ==
  /\ SegIdle
  /\ ExpIdle
  /\ GalIdle
  /\ CapIdle
  /\ pc = "idle"
  /\ RunIdle
  /\ KnnIdle
  /\ fs = {}
  /\ SelIdle
  /\ SrvIdle
  /\ tr_pc = "call"
  /\ content \in Transcripts
  /\ segments = <<>>
  /\ tr_ranges = <<>>

ParseTranscriptCall ==
  /\ tr_pc = "call"
  /\ segments' = parse_transcript(content)
  /\ tr_ranges' = SegmentRanges(content)
  /\ tr_pc' = "done"
  /\ UNCHANGED <<segvars, runvars, knnvars, capvars, galvars, expvars, fs, selvars, srvvars, content>>

NextTranscript == ParseTranscriptCall

SpecTranscript == InitTranscript /\ [][NextTranscript]_vars

(***************************************************************************)
(* scripts/rag/blip2_caption.py, caption_images (lines 127-156).  A path   *)
(* is a number; the image opened from path p is the record [src |-> p],    *)
(* and the text decoded for an image is a sequence of characters with      *)
(* white space around a word that depends on the image.  The processor,    *)
(* model.generate and batch_decode give one caption for each image of the  *)
(* batch, in the order of the images.                                      *)
(***************************************************************************)
BATCH_SIZE == 4

CapWords == <<"w1", "w2", "w3", "w4", "w5", "w6", "w7", "w8", "w9", "w10",
              "w11", "w12">>

\* Image.open(p).convert("RGB") (line 139)
ImageOpen(p) == [src |-> p]

\* lines 150-152 for one image of the batch
Generated(img) == <<"SP", CapWords[img.src], "NL">>

\* paths[i : i + BATCH_SIZE] (line 134), i counted from 0
BatchPaths(ps, i) ==
  SubSeq(ps, i + 1, IF i + BATCH_SIZE < Len(ps) THEN i + BATCH_SIZE
                    ELSE Len(ps))

\* a fault: every path of the batch is kept, opened or not
ValidPathsWholeBatch(batch, opens) == batch

\* valid_paths after the loop of lines 137-144
ValidPaths(batch, opens) == SelectSeq(batch, LAMBDA p : opens[p])

\* images after the loop of lines 137-144
Images(batch, opens) ==
  LET ok == SelectSeq(batch, LAMBDA p : opens[p])
  IN  [k \in 1..Len(ok) |-> ImageOpen(ok[k])]

\* the paths logged at line 141
FailedToOpen(batch, opens) == SelectSeq(batch, LAMBDA p : ~opens[p])

\* captions (lines 150-152)
Captions(images) == [k \in 1..Len(images) |-> Generated(images[k])]

\* the pairs appended at lines 154-155: zip stops at the shorter list
ZipStripped(vp, captions) ==
  LET n == IF Len(vp) < Len(captions) THEN Len(vp) ELSE Len(captions)
  IN  [k \in 1..n |-> <<vp[k], Strip(captions[k])>>]

PathLists ==
  UNION {{[k \in 1..n |-> k], [k \in 1..n |-> n + 1 - k]} : n \in 0..MaxPaths}

InitCaption ==
  /\ SegIdle
  /\ ExpIdle
  /\ GalIdle
  /\ KnnIdle
  /\ WebIdle
  /\ pc = "idle"
  /\ RunIdle
  /\ cap_pc = "loop"
  /\ paths \in PathLists
  /\ cap_opens \in [1..Len(paths) -> BOOLEAN]
  /\ cap_i = 0
  /\ results = <<>>
  /\ cap_log = <<>>

\* one pass of the loop of line 133 in which some image opened
CaptionBatch ==
  /\ cap_pc = "loop"
  /\ cap_i < Len(paths)
  /\ LET batch_paths == BatchPaths(paths, cap_i)
         images == Images(batch_paths, cap_opens)
         valid_paths == ValidPaths(batch_paths, cap_opens)
     IN  /\ images # <<>>
         /\ results' = results \o ZipStripped(valid_paths, Captions(images))
         /\ cap_log' = cap_log \o FailedToOpen(batch_paths, cap_opens)
  /\ cap_i' = cap_i + BATCH_SIZE
  /\ UNCHANGED <<segvars, runvars, knnvars, galvars, expvars, webvars, cap_pc, paths,
                 cap_opens>>

\* one pass in which no image opened (lines 146-147)
CaptionBatchEmpty ==
  /\ cap_pc = "loop"
  /\ cap_i < Len(paths)
  /\ LET batch_paths == BatchPaths(paths, cap_i)
     IN  /\ Images(batch_paths, cap_opens) = <<>>
         /\ cap_log' = cap_log \o FailedToOpen(batch_paths, cap_opens)
  /\ cap_i' = cap_i + BATCH_SIZE
  /\ UNCHANGED <<segvars, runvars, knnvars, galvars, expvars, webvars, cap_pc, paths,
                 cap_opens, results>>

\* return results (line 156)
CaptionReturn ==
  /\ cap_pc = "loop"
  /\ cap_i >= Len(paths)
  /\ cap_pc' = "done"
  /\ UNCHANGED <<segvars, runvars, knnvars, galvars, expvars, webvars, paths, cap_opens,
                 cap_i, results, cap_log>>

NextCaption == CaptionBatch \/ CaptionBatchEmpty \/ CaptionReturn

SpecCaption == InitCaption /\ [][NextCaption]_vars

(***************************************************************************)
(* select_image.py: parse_frame_timestamp (lines 88-98),                   *)
(* parse_transcript_timestamp (101-110), group_images_by_segments          *)
(* (113-146) and GET / (319-334) when a transcript was given.              *)
(*                                                                         *)
(* A file name and a timestamp are sequences of characters in which every  *)
(* run of digits is kept as one item ("05", "000").  Times are counted in  *)
(* milliseconds: both parsers compute h*3600 + m*60 + s + ms/1000.0 with   *)
(* the same operations, so two times compare as their milliseconds do.     *)
(***************************************************************************)
D2 == {"00", "05", "07", "10", "12"}
D3 == {"000", "500"}

\* int() of a run of digits
DigitVal(d) ==
  CASE d \in {"00", "000"} -> 0
    [] d = "05" -> 5
    [] d = "07" -> 7
    [] d = "10" -> 10
    [] d = "12" -> 12
    [] d = "500" -> 500

\* int(x): ValueError unless x is a run of digits
IntOf(x) ==
  IF Len(x) = 1 /\ x[1] \in D2 \cup D3
  THEN [raised |-> "none", v |-> DigitVal(x[1])]
  ELSE [raised |-> "ValueError", v |-> 0]

\* the characters of the strings start and end of a segment
CharsOf(str) ==
  CASE str = "" -> <<>>
    [] str = "00:00:00,000" -> <<"00", ":", "00", ":", "00", ",", "000">>
    [] str = "00:00:05,000" -> <<"00", ":", "00", ":", "05", ",", "000">>
    [] str = "00:00:10,000" -> <<"00", ":", "00", ":", "10", ",", "000">>

\* str.replace(a, b) for single characters
ReplaceChar(t, a, b) == [k \in 1..Len(t) |-> IF t[k] = a THEN b ELSE t[k]]

\* str.split(sep): the pieces between the separators, at least one piece
RECURSIVE SplitOn(_, _, _, _)
SplitOn(t, sep, i, piece) ==
  IF i > Len(t) THEN <<piece>>
  ELSE IF t[i] = sep THEN <<piece>> \o SplitOn(t, sep, i + 1, <<>>)
  ELSE SplitOn(t, sep, i + 1, Append(piece, t[i]))

Split(t, sep) == SplitOn(t, sep, 1, <<>>)

Millis(h, m, sec, ms) == ((h * 60 + m) * 60 + sec) * (10 * 10 * 10) + ms

\* lines 104-110, evaluated in the order of the code
parse_transcript_timestamp(timestamp_str) ==
  LET parts == Split(ReplaceChar(timestamp_str, ",", "."), ":")
      Raising(e) == [raised |-> e, t |-> 0]
  IN  IF IntOf(parts[1]).raised # "none" THEN Raising("ValueError")
      ELSE IF Len(parts) < 2 THEN Raising("IndexError")
      ELSE IF IntOf(parts[2]).raised # "none" THEN Raising("ValueError")
      ELSE IF Len(parts) < 3 THEN Raising("IndexError")
      ELSE LET seconds_parts == Split(parts[3], ".")
           IN  IF IntOf(seconds_parts[1]).raised # "none"
               THEN Raising("ValueError")
               ELSE IF Len(seconds_parts) > 1
                       /\ IntOf(seconds_parts[2]).raised # "none"
               THEN Raising("ValueError")
               ELSE [raised |-> "none",
                     t |-> Millis(IntOf(parts[1]).v, IntOf(parts[2]).v,
                                  IntOf(seconds_parts[1]).v,
                                  IF Len(seconds_parts) > 1
                                  THEN IntOf(seconds_parts[2]).v ELSE 0)]

\* pattern.search(filename) (lines 92-93): the places where the pattern
\* frame_(\d{2})_(\d{2})_(\d{2})_(\d{3}) matches
FrameMatchAt(name, i) ==
  /\ i + 7 <= Len(name)
  /\ name[i] = "frame_"
  /\ name[i + 1] \in D2 /\ name[i + 2] = "_"
  /\ name[i + 3] \in D2 /\ name[i + 4] = "_"
  /\ name[i + 5] \in D2 /\ name[i + 6] = "_"
  /\ name[i + 7] \in D3

NoTime == -1

\* lines 92-98: NoTime stands for None
parse_frame_timestamp(filename) ==
  LET at == {i \in 1..Len(filename) : FrameMatchAt(filename, i)}
  IN  IF at = {} THEN NoTime
      ELSE LET i == CHOOSE j \in at : \A l \in at : j <= l
           IN  Millis(DigitVal(filename[i + 1]), DigitVal(filename[i + 3]),
                      DigitVal(filename[i + 5]), DigitVal(filename[i + 7]))

\* the loop of lines 134-140 from segment i (counted from 0) on, and lines
\* 143-144: the number of the segment that receives a frame of time
\* frame_time, or the exception raised on the way
RECURSIVE AssignFrom(_, _, _)
AssignFrom(frame_time, segs, i) ==
  IF i >= Len(segs) THEN [raised |-> "none", seg |-> Len(segs) - 1]
  ELSE LET start_time == parse_transcript_timestamp(CharsOf(segs[i + 1].start))
           end_time == parse_transcript_timestamp(CharsOf(segs[i + 1].end))
       IN  IF start_time.raised # "none"
           THEN [raised |-> start_time.raised, seg |-> i]
           ELSE IF end_time.raised # "none"
           THEN [raised |-> end_time.raised, seg |-> i]
           ELSE IF start_time.t <= frame_time /\ frame_time <= end_time.t
           THEN [raised |-> "none", seg |-> i]
           ELSE AssignFrom(frame_time, segs, i + 1)

\* lines 126-144 for one image
Assign(img, segs) ==
  IF parse_frame_timestamp(img) = NoTime
  THEN [raised |-> "none", seg |-> Len(segs) - 1]
  ELSE AssignFrom(parse_frame_timestamp(img), segs, 0)

\* group_images_by_segments: grouped[i] stands for grouped["segment_i"]
group_images_by_segments(imgs, segs) ==
  IF segs = <<>>
  THEN [raised |-> "none", grouped |-> [i \in {0} |-> imgs]]
  ELSE LET bad == {k \in 1..Len(imgs) : Assign(imgs[k], segs).raised # "none"}
       IN  IF bad # {}
           THEN [raised |->
                   Assign(imgs[CHOOSE k \in bad : \A l \in bad : k <= l],
                          segs).raised,
                 grouped |-> <<>>]
           ELSE [raised |-> "none",
                 grouped |->
                   [i \in 0..(Len(segs) - 1) |->
                      SelectSeq(imgs, LAMBDA g : Assign(g, segs).seg = i)]]

\* file names, in the order sorted() gives them
FrameNames ==
  << <<"a", ".jpg">>,
     <<"frame_", "00", "_", "00", "_", "00", "_", "000", ".jpg">>,
     <<"frame_", "00", "_", "00", "_", "05", "_", "000", ".jpg">>,
     <<"frame_", "00", "_", "00", "_", "07", "_", "500", ".jpg">>,
     <<"frame_", "00", "_", "00", "_", "12", "_", "000", ".jpg">>,
     <<"frame_", "00", "_", "05", ".jpg">>,
     <<"shot_", "frame_", "00", "_", "00", "_", "10", "_", "000", ".png">> >>

ImageLists ==
  {SelectSeq(FrameNames, LAMBDA f : \E k \in S : FrameNames[k] = f) :
     S \in SUBSET (1..Len(FrameNames))}

\* texts of up to MaxLines lines, a line being a heading or other text
RECURSIVE JoinLines(_)
JoinLines(ls) ==
  IF ls = <<>> THEN <<>>
  ELSE IF Len(ls) = 1 THEN <<ls[1]>>
  ELSE <<ls[1], "NL">> \o JoinLines(Tail(ls))

LineTranscripts ==
  {JoinLines(ls) : ls \in UNION {[1..n -> {"H1", "H2", "x"}] : n \in 0..MaxLines}}

SegmentLists == {<<>>} \cup {parse_transcript(c) : c \in LineTranscripts}

InitGroup ==
  /\ SegIdle
  /\ ExpIdle
  /\ CapIdle
  /\ KnnIdle
  /\ WebIdle
  /\ pc = "idle"
  /\ RunIdle
  /\ gal_pc = "group"
  /\ transcript = NoTranscript
  /\ gal_images \in ImageLists
  /\ segments_cache \in SegmentLists
  /\ grouped_images = <<>>
  /\ gal_error = "none"

\* a call of group_images_by_segments that returns
GroupCall ==
  /\ gal_pc = "group"
  /\ LET r == group_images_by_segments(gal_images, segments_cache)
     IN  /\ r.raised = "none"
         /\ grouped_images' = r.grouped
  /\ gal_pc' = "returned"
  /\ UNCHANGED <<segvars, runvars, knnvars, capvars, expvars, webvars, transcript,
                 gal_images, segments_cache, gal_error>>

\* a call of group_images_by_segments that raises
GroupCallRaises ==
  /\ gal_pc = "group"
  /\ LET r == group_images_by_segments(gal_images, segments_cache)
     IN  /\ r.raised # "none"
         /\ gal_error' = r.raised
  /\ gal_pc' = "raised"
  /\ UNCHANGED <<segvars, runvars, knnvars, capvars, expvars, webvars, transcript,
                 gal_images, segments_cache, grouped_images>>

NextGroup == GroupCall \/ GroupCallRaises

SpecGroup == InitGroup /\ [][NextGroup]_vars

InitGallery ==
  /\ SegIdle
  /\ ExpIdle
  /\ CapIdle
  /\ KnnIdle
  /\ WebIdle
  /\ pc = "idle"
  /\ RunIdle
  /\ gal_pc = "create_app"
  /\ transcript \in {NoTranscript} \cup LineTranscripts
  /\ gal_images \in ImageLists
  /\ segments_cache = <<>>
  /\ grouped_images = <<>>
  /\ gal_error = "none"

\* create_app, lines 285-293
create_app_transcript ==
  /\ gal_pc = "create_app"
  /\ segments_cache' = IF transcript = NoTranscript THEN <<>>
                       ELSE parse_transcript(transcript)
  /\ gal_pc' = "serving"
  /\ UNCHANGED <<segvars, runvars, knnvars, capvars, expvars, webvars, transcript,
                 gal_images, grouped_images, gal_error>>

\* GET / with segments (lines 322-334)
index_grouped ==
  /\ gal_pc = "serving"
  /\ segments_cache # <<>>
  /\ LET r == group_images_by_segments(gal_images, segments_cache)
     IN  /\ r.raised = "none"
         /\ grouped_images' = r.grouped
  /\ gal_pc' = "responded"
  /\ UNCHANGED <<segvars, runvars, knnvars, capvars, expvars, webvars, transcript,
                 gal_images, segments_cache, gal_error>>

\* GET / with segments, the grouping of line 324 raising: the handler
\* ends with the exception and the client gets status 500
index_raises ==
  /\ gal_pc = "serving"
  /\ segments_cache # <<>>
  /\ LET r == group_images_by_segments(gal_images, segments_cache)
     IN  /\ r.raised # "none"
         /\ gal_error' = r.raised
  /\ gal_pc' = "responded"
  /\ UNCHANGED <<segvars, runvars, knnvars, capvars, expvars, webvars, transcript,
                 gal_images, segments_cache, grouped_images>>

\* GET / without segments: grouped_images stays {} (lines 322-323)
index_ungrouped ==
  /\ gal_pc = "serving"
  /\ segments_cache = <<>>
  /\ grouped_images' = <<>>
  /\ gal_pc' = "responded"
  /\ UNCHANGED <<segvars, runvars, knnvars, capvars, expvars, webvars, transcript,
                 gal_images, segments_cache, gal_error>>

NextGallery ==
  create_app_transcript \/ index_grouped \/ index_raises \/ index_ungrouped

SpecGallery == InitGallery /\ [][NextGallery]_vars

(***************************************************************************)
(* select_image.py: generate_markdown (lines 209-260) and POST /export     *)
(* (353-388).  A line of markdown is a sequence of characters, the text    *)
(* of a segment being one item of markdown_lines whatever newlines it      *)
(* holds; the two headings of lines 238 and 255 are named in ASCII.        *)
(***************************************************************************)
BlankLine == <<>>
RuleLine == <<"---">>
RelatedHeading == <<"### related images">>
OtherHeading == <<"## other images">>

\* f"![{img_path}]({img_path})" (lines 241 and 258)
ImageLink(img_path) == <<"![", img_path, "](", img_path, ")">>

\* str(i)
StrTable == <<"0", "1", "2", "3", "4", "5">>
Str(i) == StrTable[i + 1]

\* selections.get(key, [])
Get(sel, key) == IF key \in DOMAIN sel THEN sel[key] ELSE <<>>

Links(imgs) == [k \in 1..Len(imgs) |-> ImageLink(imgs[k])]

\* a fault: the separator after every segment
SeparatorAfterEvery(i, n) == <<BlankLine, RuleLine, BlankLine>>

\* lines 244-247
SeparatorAfter(i, n) ==
  IF i < n - 1 THEN <<BlankLine, RuleLine, BlankLine>> ELSE <<>>

\* the loop of lines 228-247 from segment i (counted from 0) on
RECURSIVE SegmentLines(_, _, _)
SegmentLines(segs, sel, i) ==
  IF i >= Len(segs) THEN <<>>
  ELSE LET selected_images == Get(sel, Str(i))
       IN  <<segs[i + 1].text>>
           \o (IF selected_images # <<>>
               THEN <<BlankLine, RelatedHeading, BlankLine>>
                    \o Links(selected_images)
               ELSE <<>>)
           \o SeparatorAfter(i, Len(segs))
           \o SegmentLines(segs, sel, i + 1)

\* markdown_lines at line 260
MarkdownLines(segs, sel) ==
  LET ungrouped == Get(sel, "ungrouped")
  IN  SegmentLines(segs, sel, 0)
      \o (IF ungrouped # <<>>
          THEN <<BlankLine, RuleLine, BlankLine, OtherHeading, BlankLine>>
               \o Links(ungrouped)
          ELSE <<>>)

\* "\n".join(lines)
RECURSIVE JoinNewline(_)
JoinNewline(lines) ==
  IF lines = <<>> THEN <<>>
  ELSE IF Len(lines) = 1 THEN lines[1]
  ELSE lines[1] \o <<"NL">> \o JoinNewline(Tail(lines))

generate_markdown(segs, sel) == JoinNewline(MarkdownLines(segs, sel))

\* sum(len(imgs) for imgs in selections.values()) (line 380)
RECURSIVE SumLen(_, _)
SumLen(sel, keys) ==
  IF keys = {} THEN 0
  ELSE LET k == CHOOSE x \in keys : TRUE
       IN  Len(sel[k]) + SumLen(sel, keys \ {k})

SelKeys == {"0", "1", "ungrouped", "segment_0"}
SelLists == {<<>>, <<"a.jpg">>, <<"b.gif", "a.jpg">>}
Selections == UNION {[D -> SelLists] : D \in SUBSET SelKeys}

InitExport ==
  /\ SegIdle
  /\ CapIdle
  /\ KnnIdle
  /\ WebIdle
  /\ pc = "idle"
  /\ RunIdle
  /\ gal_pc = "idle"
  /\ transcript = NoTranscript
  /\ gal_images = <<>>
  /\ segments_cache \in SegmentLists
  /\ grouped_images = <<>>
  /\ gal_error = "none"
  /\ exp_pc = "export"
  /\ output_dir \in {"none", "configured"}
  /\ selections \in Selections
  /\ markdown_lines = <<>>
  /\ exported_file = NoFile
  /\ exp_response = NoExport

\* POST /export without output directory (lines 355-359)
export_unavailable ==
  /\ exp_pc = "export"
  /\ output_dir = "none"
  /\ exp_response' = [status |-> 400, total_segments |-> 0,
                      total_selections |-> 0]
  /\ exp_pc' = "refused"
  /\ UNCHANGED <<segvars, runvars, knnvars, capvars, galvars, webvars,
                 output_dir, selections, markdown_lines, exported_file>>

\* POST /export writing the file (lines 361-381)
export_markdown ==
  /\ exp_pc = "export"
  /\ output_dir = "configured"
  /\ markdown_lines' = MarkdownLines(segments_cache, selections)
  /\ exported_file' = generate_markdown(segments_cache, selections)
  /\ exp_response' =
       [status |-> 200, total_segments |-> Len(segments_cache),
        total_selections |-> SumLen(selections, DOMAIN selections)]
  /\ exp_pc' = "exported"
  /\ UNCHANGED <<segvars, runvars, knnvars, capvars, galvars, webvars,
                 output_dir, selections>>

\* POST /export, write_text raising (lines 371 and 383-388)
export_fails ==
  /\ exp_pc = "export"
  /\ output_dir = "configured"
  /\ markdown_lines' = MarkdownLines(segments_cache, selections)
  /\ exp_response' = [status |-> 500, total_segments |-> 0,
                      total_selections |-> 0]
  /\ exp_pc' = "failed"
  /\ UNCHANGED <<segvars, runvars, knnvars, capvars, galvars, webvars,
                 output_dir, selections, exported_file>>

NextExport == export_unavailable \/ export_markdown \/ export_fails

SpecExport == InitExport /\ [][NextExport]_vars

(***************************************************************************)
(* Properties of zh_seg, stated on its input and output only.              *)
(***************************************************************************)
SegDone == seg_pc = "done"

\* the seven marks the claims call sentence boundaries in the code, and the
\* eight of the specification's list (with the ASCII full stop)
CodeBoundaryMarks == {"!", "?", ";", "FWSTOP", "FWBANG", "FWQ", "FWSEMI"}
SpecBoundaryMarks == CodeBoundaryMarks \cup {"."}
Punctuation == SpecBoundaryMarks
Blanks == {"SP"}

Remove(s, R) == SelectSeq(s, LAMBDA c : c \notin R)

RECURSIVE Concat(_)
Concat(ss) == IF ss = <<>> THEN <<>> ELSE Head(ss) \o Concat(Tail(ss))

\* a is b with some characters deleted
RECURSIVE IsSubseq(_, _)
IsSubseq(a, b) ==
  IF a = <<>> THEN TRUE
  ELSE IF b = <<>> THEN FALSE
  ELSE IF Head(a) = Head(b) THEN IsSubseq(Tail(a), Tail(b))
  ELSE IsSubseq(a, Tail(b))

\* the maximal runs of s that hold no character of B, in order (empty runs
\* included): the run being read is cur
RECURSIVE Runs(_, _, _)
Runs(s, B, cur) ==
  IF s = <<>> THEN <<cur>>
  ELSE IF Head(s) \in B THEN <<cur>> \o Runs(Tail(s), B, <<>>)
  ELSE Runs(Tail(s), B, Append(cur, Head(s)))

RECURSIVE LStrip(_)
LStrip(s) == IF s # <<>> /\ Head(s) \in Blanks THEN LStrip(Tail(s)) ELSE s

AllBlank(s) == \A i \in 1..Len(s) : s[i] \in Blanks

\* the sentences a text has when the marks of B are its boundaries: the
\* runs between marks that are not whitespace only, the whitespace that
\* follows a mark not being part of the next sentence
SentencesBy(text, B) ==
  LET rs == Runs(text, B, <<>>)
      cut == [i \in 1..Len(rs) |-> IF i = 1 THEN rs[i] ELSE LStrip(rs[i])]
  IN  SelectSeq(cut, LAMBDA r : ~AllBlank(r))

\* the sentences of a chunk: what stands before each FWSTOP of it
ChunkSentences(c) ==
  LET rs == Runs(c, {"FWSTOP"}, <<>>) IN SubSeq(rs, 1, Len(rs) - 1)

RECURSIVE EmittedSentences(_)
EmittedSentences(chunks) ==
  IF chunks = <<>> THEN <<>>
  ELSE ChunkSentences(Head(chunks)) \o EmittedSentences(Tail(chunks))

Occurrences(x, ss) == Cardinality({i \in 1..Len(ss) : ss[i] = x})

\* C2 (as claimed): no chunk is longer than max_len characters, except a
\* chunk made of one sentence that is itself longer than max_len.
C2_ChunkWithinMaxLen ==
  SegDone =>
    \A k \in 1..Len(seg_chunks) :
      \/ Len(seg_chunks[k]) <= seg_max_len
      \/ /\ Len(ChunkSentences(seg_chunks[k])) = 1
         /\ Len(ChunkSentences(seg_chunks[k])[1]) > seg_max_len

\* C3 (as claimed): the chunks concatenated, punctuation removed, are
\* exactly the characters of the text that are neither whitespace nor
\* punctuation, in their order.
C3_ConcatIsTextContent ==
  SegDone =>
    Remove(Concat(seg_chunks), Punctuation)
      = Remove(seg_text, Punctuation \cup Blanks)

\* C3 (amended): the chunks concatenated, punctuation and whitespace
\* removed, are exactly the characters of the text that are neither
\* whitespace nor punctuation, in their order.
C3_ConcatIsTextContentModuloBlanks ==
  SegDone =>
    Remove(Concat(seg_chunks), Punctuation \cup Blanks)
      = Remove(seg_text, Punctuation \cup Blanks)

\* a text of several chunks with whitespace inside a sentence
C3_Witness ==
  /\ SegDone
  /\ Len(seg_chunks) >= 2
  /\ \E k \in 1..Len(seg_chunks) : \E i \in 1..Len(seg_chunks[k]) :
       seg_chunks[k][i] \in Blanks

\* the chunks' sentences are read off the text from left to right
ChunksInSourceOrder ==
  IsSubseq(Remove(Concat(seg_chunks), {"FWSTOP"}), seg_text)

\* C4 (as claimed): a text with at least one non-whitespace character,
\* punctuation marks included, gives a non-empty list of chunks, in source
\* order.
C4_NonEmptyForNonBlankText ==
  SegDone =>
    /\ (\E i \in 1..Len(seg_text) : seg_text[i] \notin Blanks)
         => seg_chunks # <<>>
    /\ ChunksInSourceOrder

\* C4 (amended): the list of chunks is non-empty exactly when the text has
\* a character that is neither whitespace nor one of the marks zh_seg
\* splits on, and the chunks are in source order.
C4_NonEmptyForTextWithContent ==
  SegDone =>
    /\ (seg_chunks # <<>>)
         <=> (\E i \in 1..Len(seg_text) :
                seg_text[i] \notin Blanks \cup CodeBoundaryMarks)
    /\ ChunksInSourceOrder

\* a text with content and marks that gives several chunks
C4_Witness ==
  /\ SegDone
  /\ Len(seg_chunks) >= 2
  /\ \E i \in 1..Len(seg_text) : seg_text[i] \in CodeBoundaryMarks

\* the chunks hold, sentence by sentence, the sentences the marks of B cut
\* the text into, each closed by FWSTOP, and no mark of B anywhere else
SplitsOn(B) ==
  /\ EmittedSentences(seg_chunks) = SentencesBy(seg_text, B)
  /\ \A k \in 1..Len(seg_chunks) :
       /\ seg_chunks[k][Len(seg_chunks[k])] = "FWSTOP"
       /\ \A i \in 1..Len(seg_chunks[k]) :
            seg_chunks[k][i] \in B => seg_chunks[k][i] = "FWSTOP"
       /\ \A j \in 1..Len(ChunkSentences(seg_chunks[k])) :
            ~AllBlank(ChunkSentences(seg_chunks[k])[j])

\* C5 (as claimed): every '.', '!', '?', ';' and full-width equivalent is a
\* sentence boundary, none is inside a sentence of a chunk, and
\* whitespace-only candidates are discarded.
C5_SplitsOnSpecMarks == SegDone => SplitsOn(SpecBoundaryMarks)

\* C5 (amended): every '!', '?', ';' and every full-width full stop, '!',
\* '?' and ';' is a sentence boundary, none is inside a sentence of a
\* chunk, and whitespace-only candidates are discarded; the ASCII '.' is no
\* boundary and stays inside its sentence.
C5_SplitsOnCodeMarks == SegDone => SplitsOn(CodeBoundaryMarks)

\* a text with an ASCII '.', an ASCII '!' and a whitespace-only candidate
C5_Witness ==
  /\ SegDone
  /\ seg_chunks # <<>>
  /\ \E i \in 1..Len(seg_text) : seg_text[i] = "."
  /\ \E i \in 1..Len(seg_text) : seg_text[i] = "!"
  /\ Len(Runs(seg_text, CodeBoundaryMarks, <<>>))
       > Len(SentencesBy(seg_text, CodeBoundaryMarks))

\* C6: every sentence longer than max_len is, whole, a sentence of the
\* chunks as often as it is a sentence of the text (never cut, never lost),
\* and the chunk that holds it holds nothing else.
C6_LongSentenceWhole ==
  SegDone =>
    LET sents == SentencesBy(seg_text, CodeBoundaryMarks)
        out == EmittedSentences(seg_chunks)
    IN  \A i \in 1..Len(sents) :
          Len(sents[i]) > seg_max_len =>
            /\ Occurrences(sents[i], out) = Occurrences(sents[i], sents)
            /\ Occurrences(Append(sents[i], "FWSTOP"), seg_chunks)
                 = Occurrences(sents[i], sents)

\* a sentence longer than max_len that follows another sentence
C6_Witness ==
  /\ SegDone
  /\ \E k \in 2..Len(seg_chunks) : Len(seg_chunks[k]) - 1 > seg_max_len
(***************************************************************************)
(* Properties of the run.                                                  *)
(***************************************************************************)
\* the paths of the files that did not open and were skipped
SkippedPaths == {p \in 1..Len(files) : ~files[p].ok}

ResultBuilt == pc \in {"write", "done"}

\* C1 (as claimed): whatever files were skipped, the path of every output
\* record is the path of the image whose embedding was inserted under the
\* record's ID, and no skipped path is in the output.
C1_RecordPathIsInsertedImage ==
  ResultBuilt =>
    \A r \in 1..Len(result) :
      /\ result[r].path = feat_src[labels[r] + 1]
      /\ result[r].path \notin SkippedPaths

\* C7 (as claimed): no zero embedding is divided by its norm: none is
\* inserted into the index (the division of the zero vector leaves a nan
\* row), and no search is run for a query with a zero chunk embedding.
C7_ZeroVectorGuarded ==
  /\ \A i \in 1..Len(index.items) : ~index.items[i].nan
  /\ (\E i \in 1..Len(text_emb) : text_emb[i].nan)
       => pc \notin {"format", "write", "done"}

\* C8 (as claimed): when the text gives no chunk, the embedding provider is
\* not called, and nothing is aggregated or searched.
C8_EmptyQueryRejected ==
  (pc # "segment" /\ text_chunks = <<>>) =>
    /\ text_calls = <<>>
    /\ pc \notin {"list_images", "embed_images", "query", "format", "write",
                  "done"}

\* the run is past the loop of line 76 and the test of line 87
PastCorpusCheck == pc \in {"query", "format", "write", "done", "failed"}

\* C9: when no image gave an embedding, the run ends in the empty-corpus
\* error with no index created, nothing inserted, no query issued and no
\* result file written.
C9_EmptyCorpusFatal ==
  /\ (pc = "failed" /\ error = "EmptyCorpus") =>
       /\ img_feats = <<>>
       /\ index = NoIndex
       /\ labels = <<>> /\ distances = <<>> /\ result = <<>>
       /\ ~json_written
  /\ (PastCorpusCheck /\ error # "EmbedTextError" /\ img_feats = <<>>) =>
       pc = "failed" /\ error = "EmptyCorpus"
  /\ index.created => index.items # <<>>

\* a directory with files, none of which opens
C9_Witness ==
  /\ pc = "failed"
  /\ error = "EmptyCorpus"
  /\ Len(img_paths) >= 1
  /\ next_img > Len(img_paths)

Min(a, b) == IF a <= b THEN a ELSE b

\* C10 (as claimed): with fewer than TOP_K items in the index the search
\* does not fail; it returns min(TOP_K, number of items) results.
C10_SearchReturnsMinOfKAndSize ==
  /\ error # "KnnTooFewResults"
  /\ pc \in {"format", "write", "done"} =>
       Len(labels) = Min(TOP_K, Len(index.items))

\* the inner product of two vectors, in units of 1/Scale^2: the similarity
\* of two unit vectors
Dot(q, x) == q.c[1] * x.c[1] + q.c[2] * x.c[2]

\* a run whose query vector and index rows are all numbers
NumbersOnly ==
  /\ ~query_vec.nan
  /\ \A i \in 1..Len(index.items) : ~index.items[i].nan

\* the index row a record of the result stands for
RowOf(r) == index.items[labels[r] + 1]

\* C11 (as claimed): in every output list the score of a record is a
\* similarity (of two records, the one whose image is more similar to the
\* query has the higher score), the scores do not increase as the rank
\* increases, and the returned item IDs are pairwise distinct.
C11_ScoreIsSimilarityDescending ==
  (ResultBuilt /\ NumbersOnly) =>
    /\ \A r \in 1..Len(result) : ~result[r].score.nan
    /\ \A r, t \in 1..Len(result) :
         Dot(query_vec, RowOf(r)) > Dot(query_vec, RowOf(t))
           => result[r].score.d > result[t].score.d
    /\ \A r \in 1..(Len(result) - 1) :
         result[r].score.d >= result[r + 1].score.d
    /\ \A r, t \in 1..Len(labels) : r # t => labels[r] # labels[t]

\* x is the unit vector of the direction of the non-zero vector raw
IsUnitOf(x, raw) ==
  /\ ~x.nan
  /\ Dot(x, x) = Scale * Scale
  /\ x.c[1] * raw.c[2] = x.c[2] * raw.c[1]
  /\ Dot(x, raw) > 0

IsZero(raw) == raw.c[1] = 0 /\ raw.c[2] = 0

\* lines 70-71 have run
Aggregated ==
  \/ pc \in {"list_images", "embed_images", "query", "format", "write",
              "done"}
  \/ pc = "failed" /\ error \in {"EmptyCorpus", "KnnTooFewResults"}

\* C13: the query vector handed to the search is the unweighted
\* component-wise mean of the chunk embeddings, each brought to unit length
\* on its own, and it is searched as it is, with no normalisation after the
\* mean (it is nan when there is no chunk or a chunk embedding is zero);
\* every row of the index is the unit vector of its image's embedding,
\* normalised before the insertion.
C13_QueryIsMeanOfUnitChunks ==
  /\ Aggregated =>
       /\ Len(text_emb) = Len(text_raw)
       /\ IF text_raw # <<>> /\ \A i \in 1..Len(text_raw) : ~IsZero(text_raw[i])
          THEN /\ \A i \in 1..Len(text_raw) : IsUnitOf(text_emb[i], text_raw[i])
               /\ ~query_vec.nan
               /\ \A j \in 1..2 :
                    query_vec.c[j] * Len(text_emb) = SumComp(text_emb, j)
          ELSE query_vec.nan
  /\ index.created =>
       /\ Len(index.items) = Len(feat_src)
       /\ \A i \in 1..Len(feat_src) :
            IF IsZero(files[feat_src[i]].vec) THEN index.items[i].nan
            ELSE IsUnitOf(index.items[i], files[feat_src[i]].vec)
  /\ (pc \in {"format", "write", "done"} /\ NumbersOnly) =>
       \A r \in 1..Len(labels) :
         /\ ~distances[r].nan
         /\ distances[r].d = Scale * Scale - Dot(query_vec, RowOf(r))

\* a search run for the mean of two chunk embeddings of different
\* directions: the mean is shorter than a unit vector
C13_Witness ==
  /\ pc \in {"format", "write", "done"}
  /\ Len(text_raw) = 2
  /\ ~query_vec.nan
  /\ Dot(query_vec, query_vec) < Scale * Scale
  /\ NumbersOnly

\* the corpus of the worked example: [1,0], [0,1], [0.9,0.1], [-1,0],
\* [0,-1] under the IDs 0..4
ScenarioCorpus ==
  <<Vec(10, 0), Vec(0, 10), Vec(9, 1), Vec(-10, 0), Vec(0, -10)>>

\* the worked example has been run: that corpus, the query [1,0], k = 3
ScenarioDone ==
  /\ pc = "knn_done"
  /\ knn_raw = ScenarioCorpus
  /\ knn_k = 3
  /\ query_vec = Vec(Scale, 0)

\* |a - b| <= eps
Near(a, b, eps) == a - b <= eps /\ b - a <= eps

\* C14 (as claimed): in the worked example the result is [1,0] with score
\* 1.0, then [0.9,0.1] with a score of about 0.994, then one of the two
\* orthogonal vectors with score 0.0; the opposite vector [-1,0] is not
\* returned.
C14_ScenarioRanking ==
  ScenarioDone =>
    /\ Len(result) = 3
    /\ labels[1] = 0
    /\ result[1].score = [nan |-> FALSE, d |-> Scale * Scale]
    /\ labels[2] = 2
    /\ ~result[2].score.nan
    /\ Near(result[2].score.d, 994 * Scale, 2 * Scale)
    /\ labels[3] \in {1, 4}
    /\ result[3].score = [nan |-> FALSE, d |-> 0]
    /\ \A r \in 1..3 : labels[r] # 3

\* the items of the worked example come back in the claimed order, with
\* distances 0.0, about 0.006 and 1.0
C14_ScenarioOrderAndDistances ==
  ScenarioDone =>
    /\ Len(result) = 3
    /\ labels[1] = 0 /\ labels[2] = 2 /\ labels[3] \in {1, 4}
    /\ result[1].score = [nan |-> FALSE, d |-> 0]
    /\ Near(result[2].score.d, 6 * Scale, 2 * Scale)
    /\ result[3].score = [nan |-> FALSE, d |-> Scale * Scale]

\* the first n paths of img_paths that open as an image / that do not
OpeningAmong(n) ==
  SelectSeq([i \in 1..n |-> img_paths[i]], LAMBDA p : files[p].ok)

FailingAmong(n) ==
  SelectSeq([i \in 1..n |-> img_paths[i]], LAMBDA p : ~files[p].ok)

\* the passes of the loop of line 76 made so far
PassesDone ==
  IF pc \in {"segment", "embed_text", "aggregate", "list_images"} THEN 0
  ELSE next_img - 1

QueryIssued ==
  \/ pc \in {"format", "write", "done"}
  \/ pc = "failed" /\ error = "KnnTooFewResults"

\* C16: the run builds, then queries: the index changes only before the
\* query is issued; the step that issues the query finds every row of
\* img_feats inserted and leaves the index (items, IDs, capacity) as it
\* was; and so does every later step.
C16_BuildThenQuery ==
  [][/\ index' # index => ~QueryIssued /\ ~QueryIssued'
     /\ (~QueryIssued /\ QueryIssued') =>
          /\ index.created
          /\ index.items = img_feats
          /\ index.max_elements = Len(img_feats)
          /\ index' = index
     /\ QueryIssued => index' = index]_vars

\* a query answered on a built index
C16_Witness ==
  /\ pc = "format"
  /\ index.created
  /\ Len(labels) = TOP_K

(***************************************************************************)
(* Properties of select_image.py.                                          *)
(***************************************************************************)
\* p starts with the components of q
HasPrefix(p, q) == Len(p) >= Len(q) /\ SubSeq(p, 1, Len(q)) = q

\* the filename of the request is relative and has no '..' component
RelativeNoDotDot ==
  /\ ~payload.abs
  /\ \A i \in 1..Len(payload.comps) : payload.comps[i] # ".."

\* the node base_dir/filename designates, for a relative filename (a '.'
\* component names the directory it stands in)
Designated ==
  Resolve(fs, <<>>,
          BaseDir \o SelectSeq(payload.comps, LAMBDA c : c # "."))

C18_WitnessTraversalRefused ==
  /\ sel_pc = "done"
  /\ response.status = 400
  /\ ~payload.abs
  /\ Designated.ok
  /\ ~HasPrefix(Designated.path, BaseDir)

\* the page GET / renders lists what a scan of the base directory gives
CacheFresh == image_cache = ScanImages(fs)

\* C19 (as claimed): while the server runs, whenever the list GET / serves
\* differs from the image files under base_dir, a later refresh makes it
\* equal to scan_images(base_dir); and the refresh task, once created,
\* stays alive whatever a scan raises.
C19_CacheEventuallyFresh ==
  /\ (srv_pc = "serving" /\ ~CacheFresh) ~> CacheFresh
  /\ [](task_loop # "none" => task_pc \in {"scan", "sleep"})

\* the positions (1-based) of the Timestamp headings of the transcript: a
\* heading text that starts a line
HeadingPositions ==
  {i \in 1..Len(content) :
     /\ content[i] \in {"H1", "H2"}
     /\ i = 1 \/ content[i - 1] = "NL"}

\* the k-th smallest element of the set of numbers S
RECURSIVE KthOf(_, _)
KthOf(S, k) ==
  LET least == CHOOSE m \in S : \A n \in S : m <= n
  IN  IF k = 1 THEN least ELSE KthOf(S \ {least}, k - 1)

\* C20: parse_transcript returns one segment per Timestamp heading, with
\* that heading's times, or exactly one segment when there is no heading;
\* the ranges of the text the segments are cut from are contiguous, do not
\* overlap and cover the text from its first to its last character: the
\* first range starts at the start of the text, every later one at its
\* own heading, and each ends where the next one starts, the last at the
\* end of the text; the text of a segment is its range, stripped.
C20_SegmentsPartitionTranscript ==
  tr_pc = "done" =>
    /\ Len(segments) = IF HeadingPositions = {} THEN 1
                       ELSE Cardinality(HeadingPositions)
    /\ Len(tr_ranges) = Len(segments)
    /\ tr_ranges[1].from = 0
    /\ tr_ranges[Len(tr_ranges)].to = Len(content)
    /\ \A k \in 1..Len(tr_ranges) : tr_ranges[k].from <= tr_ranges[k].to
    /\ \A k \in 1..(Len(tr_ranges) - 1) :
         tr_ranges[k].to = tr_ranges[k + 1].from
    /\ \A k \in 2..Len(tr_ranges) :
         tr_ranges[k].from + 1 = KthOf(HeadingPositions, k)
    /\ \A k \in 1..Len(segments) :
         /\ segments[k].text =
              Strip(SubSeq(content, tr_ranges[k].from + 1, tr_ranges[k].to))
         /\ IF HeadingPositions = {}
            THEN segments[k].start = "" /\ segments[k].end = ""
            ELSE <<segments[k].start, segments[k].end>> =
                   HeadingTimes(content[KthOf(HeadingPositions, k)])

\* a transcript with text before its first heading and two headings
C20_Witness ==
  /\ tr_pc = "done"
  /\ Len(segments) = 2
  /\ content[1] = "x"
  /\ segments[1].start # segments[2].start

(***************************************************************************)
(* Properties of blip2_caption.py.                                         *)
(***************************************************************************)
\* the input paths that open, in the order of the input
OpenedPaths == SelectSeq(paths, LAMBDA p : cap_opens[p])

\* the caption of the image of path p as line 155 stores it
OwnCaption(p) == Strip(Generated(ImageOpen(p)))

\* C21: when caption_images returns, the returned paths are the input
\* paths that opened, in the order of the input and each once, and each
\* is paired with the caption generated for its own image, wherever the
\* failures fall in the batches of BATCH_SIZE.
C21_CaptionsFollowInput ==
  cap_pc = "done" =>
    /\ Len(results) = Len(OpenedPaths)
    /\ \A k \in 1..Len(results) :
         /\ results[k][1] = OpenedPaths[k]
         /\ results[k][2] = OwnCaption(OpenedPaths[k])

\* failures in the first and in the second batch, each before a path that
\* opens, and a third batch that is not full
C21_Witness ==
  /\ cap_pc = "done"
  /\ Len(paths) = 2 * BATCH_SIZE + 1
  /\ ~cap_opens[paths[1]] /\ cap_opens[paths[2]]
  /\ ~cap_opens[paths[BATCH_SIZE + 2]] /\ cap_opens[paths[BATCH_SIZE + 3]]
  /\ cap_opens[paths[2 * BATCH_SIZE + 1]]
  /\ Len(results) = Len(OpenedPaths)
  /\ Len(results) < Len(paths)

(***************************************************************************)
(* Properties of the grouping of images by segments.                       *)
(***************************************************************************)
\* the time in milliseconds that each name of FrameNames states, NoTime
\* for a name without a whole frame timestamp
StatedFrameTime == <<NoTime, 0, 5000, 7500, 12000, NoTime, 10000>>

FrameTimeOf(img) ==
  StatedFrameTime[CHOOSE k \in 1..Len(FrameNames) : FrameNames[k] = img]

\* the time in milliseconds that a timestamp of a heading states
StampTimeOf(str) ==
  CASE str = "00:00:00,000" -> 0
    [] str = "00:00:05,000" -> 5000
    [] str = "00:00:10,000" -> 10000

\* segment i (from 0) has an interval and the interval contains time t
Contains(segs, i, t) ==
  /\ segs[i + 1].start # "" /\ segs[i + 1].end # ""
  /\ StampTimeOf(segs[i + 1].start) <= t
  /\ t <= StampTimeOf(segs[i + 1].end)

\* the group the rule gives to an image
ExpectedGroup(img, segs) ==
  LET t == FrameTimeOf(img)
      hits == {i \in 0..(Len(segs) - 1) : Contains(segs, i, t)}
  IN  IF segs = <<>> THEN 0
      ELSE IF t = NoTime \/ hits = {} THEN Len(segs) - 1
      ELSE CHOOSE i \in hits : \A j \in hits : i <= j

\* the places <<group, position>> of the result
GroupPlaces ==
  UNION {{<<i, j>> : j \in 1..Len(grouped_images[i])} :
           i \in DOMAIN grouped_images}

EveryImageInItsGroup ==
  /\ DOMAIN grouped_images =
       0..((IF segments_cache = <<>> THEN 1 ELSE Len(segments_cache)) - 1)
  /\ Cardinality(GroupPlaces) = Len(gal_images)
  /\ \A k \in 1..Len(gal_images) :
       \E j \in 1..Len(grouped_images[ExpectedGroup(gal_images[k],
                                                    segments_cache)]) :
         grouped_images[ExpectedGroup(gal_images[k], segments_cache)][j]
           = gal_images[k]

\* C22: a call of group_images_by_segments puts every input image in
\* exactly one group: the first segment in list order whose interval from
\* start to end, both ends included, contains the frame time; the last
\* segment when the name has no timestamp or no interval contains the time;
\* group "segment_0" when there are no segments.
C22_EveryImageInExactlyOneGroup ==
  gal_pc \in {"returned", "raised"} =>
    gal_pc = "returned" /\ EveryImageInItsGroup

\* the rule of C22 on the calls that return
C22_RuleWhenReturned == gal_pc = "returned" => EveryImageInItsGroup

\* a call that returns with an image on the shared end of two intervals,
\* an image in no interval and an image without timestamp
C22_ReturnedCase ==
  /\ gal_pc = "returned"
  /\ Len(segments_cache) = 2
  /\ segments_cache[1].start = "00:00:05,000"
  /\ \E k \in 1..Len(gal_images) : FrameTimeOf(gal_images[k]) = 5000
  /\ \E k \in 1..Len(gal_images) : FrameTimeOf(gal_images[k]) = 12000
  /\ \E k \in 1..Len(gal_images) : FrameTimeOf(gal_images[k]) = NoTime

\* C24: for every list of segments that parse_transcript returns, the
\* single segment with empty start and end included, GET / groups the
\* images without raising, whatever the names of the images.
C24_IndexGroupsWithoutRaising ==
  gal_pc = "responded" => gal_error = "none"

\* GET / answered with groups for a transcript without headings
C24_NoHeadingsGrouped ==
  /\ gal_pc = "responded"
  /\ gal_error = "none"
  /\ Len(segments_cache) = 1
  /\ segments_cache[1].start = ""
  /\ gal_images # <<>>

(***************************************************************************)
(* Properties of the markdown export.                                      *)
(***************************************************************************)
\* a list of lines without the blank lines at its two ends
RECURSIVE DropBlankFront(_)
DropBlankFront(ls) ==
  IF ls # <<>> /\ Head(ls) = BlankLine THEN DropBlankFront(Tail(ls)) ELSE ls

RECURSIVE DropBlankBack(_)
DropBlankBack(ls) ==
  IF ls # <<>> /\ ls[Len(ls)] = BlankLine
  THEN DropBlankBack(SubSeq(ls, 1, Len(ls) - 1)) ELSE ls

StripBlank(ls) == DropBlankBack(DropBlankFront(ls))

\* the parts of markdown_lines between the '---' lines
Pieces == Split(markdown_lines, RuleLine)

RuleCount == Cardinality({k \in 1..Len(markdown_lines) :
                            markdown_lines[k] = RuleLine})

\* what stands for segment i: its text, then the images selected under
\* the key str(i), under their heading
SegmentBlock(i) ==
  LET imgs == Get(selections, Str(i))
  IN  <<segments_cache[i + 1].text>>
      \o (IF imgs = <<>> THEN <<>>
          ELSE <<BlankLine, RelatedHeading, BlankLine>> \o Links(imgs))

IsPrefixOf(a, b) == Len(a) <= Len(b) /\ SubSeq(b, 1, Len(a)) = a

IsSuffixOf(a, b) ==
  Len(a) <= Len(b) /\ SubSeq(b, Len(b) - Len(a) + 1, Len(b)) = a

NSegments == Len(segments_cache)

Ungrouped == Get(selections, "ungrouped")

\* C23: generate_markdown gives every segment's text once and in the
\* order of the segments, the images selected under key str(i) directly
\* after the text of segment i and nowhere else, a '---' line between
\* consecutive segments but none after the last one, and the 'ungrouped'
\* images after all the segments.
C23_MarkdownLayout ==
  exp_pc = "exported" =>
    /\ exported_file = JoinNewline(markdown_lines)
    /\ RuleCount = (IF NSegments = 0 THEN 0 ELSE NSegments - 1)
    /\ Len(Pieces) = RuleCount + 1
    /\ \A i \in 0..(NSegments - 1) :
         IF i < NSegments - 1
         THEN StripBlank(Pieces[i + 1]) = StripBlank(SegmentBlock(i))
         ELSE IsPrefixOf(StripBlank(SegmentBlock(i)),
                         StripBlank(Pieces[i + 1]))
    /\ IsSuffixOf(Links(Ungrouped), markdown_lines)

\* C23 with the separator that goes with the ungrouped images: a '---'
\* line stands between consecutive segments, and one more after the last
\* segment exactly when there are ungrouped images, which follow it under
\* their own heading.
C23_MarkdownLayoutUngroupedSeparated ==
  exp_pc = "exported" =>
    /\ exported_file = JoinNewline(markdown_lines)
    /\ RuleCount = (IF NSegments = 0 THEN 0 ELSE NSegments - 1)
                   + (IF Ungrouped = <<>> THEN 0 ELSE 1)
    /\ Len(Pieces) = RuleCount + 1
    /\ \A i \in 0..(NSegments - 1) :
         StripBlank(Pieces[i + 1]) = StripBlank(SegmentBlock(i))
    /\ Ungrouped # <<>> =>
         Pieces[Len(Pieces)] =
           <<BlankLine, OtherHeading, BlankLine>> \o Links(Ungrouped)
    /\ (NSegments = 0 /\ Ungrouped # <<>>) => Pieces[1] = <<BlankLine>>

\* an export of two segments or more, with images for the first and the
\* last segment and ungrouped images
C23_Witness ==
  /\ exp_pc = "exported"
  /\ NSegments >= 2
  /\ Get(selections, "0") # <<>>
  /\ Get(selections, Str(NSegments - 1)) # <<>>
  /\ Len(Ungrouped) = 2
  /\ RuleCount = NSegments

\* the image links of the exported file
LinksWritten == Cardinality({k \in 1..Len(exported_file) :
                               exported_file[k] = "!["})

\* C25: the total_selections that POST /export reports is the number of
\* image links written into the exported markdown.
C25_TotalIsLinksWritten ==
  exp_pc = "exported" => exp_response.total_selections = LinksWritten

\* an export whose payload only uses the keys of existing segments and
\* 'ungrouped': there the total is the number of links
C25_KnownKeysCounted ==
  /\ exp_pc = "exported"
  /\ DOMAIN selections \subseteq
       {Str(i) : i \in 0..(NSegments - 1)} \cup {"ungrouped"}
  /\ exp_response.total_selections = LinksWritten
  /\ LinksWritten >= 3

====
